---- MODULE Spec2Model ----
(***************************************************************************)
(* Two command-line tools of the repository:                               *)
(*   fasta/randseq.py        random DNA sequences with a given GC percent  *)
(*   fasta/slidingwindow.py  overlapping windows of FASTA records,         *)
(*                           dropping windows with too many N              *)
(* Each tool is a sequential program; its loops are unrolled into one      *)
(* action per iteration.  Python float arithmetic (gc / 100.0,             *)
(* n_count / len * 100) is modelled bit-exactly as IEEE-754 binary64 with  *)
(* round-half-to-even, because both tools truncate or compare the float.   *)
(***************************************************************************)
EXTENDS Integers, Sequences, FiniteSets, TLC

VARIABLES
    gpc,       \* generator: position in __main__ (idle, start, generate, output, done, error)
    gargs,     \* generator: parsed arguments [n, l, gc]
    seqs,      \* generator: the list adhoc_generator builds
    gout,      \* generator: FASTA records printed so far, in order
    gmsgs,     \* generator: error messages printed
    spc,       \* scanner: position in __main__ (idle, start, entry, loop, done, error, crash)
    sargs,     \* scanner: parsed arguments [w, o, n]
    remaining, \* scanner: records of the input file not yet read
    parsed,    \* scanner: parse_fasta has been called
    ei,        \* scanner: number of records read so far
    seq,       \* scanner: sequence of the record being processed
    start,     \* scanner: local start of run_slidingwindow
    end,       \* scanner: local end of run_slidingwindow
    cand,      \* scanner: windows [start, end) computed for the current record
    npercArgs, \* scanner: lengths of the arguments get_n_perc was called with
               \* for the current record
    out,       \* scanner: windows printed for the record being processed, in
               \* order (the output is a stream: earlier records' are not kept)
    smsgs      \* scanner: error messages printed

gvars == <<gpc, gargs, seqs, gout, gmsgs>>
svars == <<spc, sargs, remaining, parsed, ei, seq, start, end, cand, npercArgs,
           out, smsgs>>
vars == <<gvars, svars>>

-----------------------------------------------------------------------------
(* Bounds of the model *)

MaxCount == 2
MaxLen == 2
LongLen == 50
MaxSeqLen == 2
MaxCleanLen == 8
ExampleLen == 25
MaskedLen == 50
MaskedNs == 29
MaxWidth == 3
ExampleWidth == 10
WideWidth == 50
MaxOverlap == 3
MaxEntries == 2

-----------------------------------------------------------------------------
(* Python float: IEEE-754 binary64.  A positive float is 1.f * 2^x with    *)
(* the 52 fraction bits f held as four 13-bit limbs, most significant      *)
(* first; z marks zero.  Operands here are non-negative.                   *)

LimbBits == 13
LimbBase == 2 ^ LimbBits
FracBits == 4 * LimbBits

FZero == [z |-> TRUE, x |-> 0, f |-> <<0, 0, 0, 0>>]

RECURSIVE ShiftUp(_, _)
ShiftUp(a, b) == IF a >= b THEN 0 ELSE 1 + ShiftUp(2 * a, b)

\* round-half-to-even of the significand 1.f; cmp compares the discarded part
\* with half a unit in the last place (-1 below, 0 tie, 1 above)
RoundEven(x, f, cmp) ==
    LET up == cmp = 1 \/ (cmp = 0 /\ f[4] % 2 = 1)
        s4 == f[4] + 1
        s3 == f[3] + s4 \div LimbBase
        s2 == f[2] + s3 \div LimbBase
        s1 == f[1] + s2 \div LimbBase
    IN  IF ~up THEN [z |-> FALSE, x |-> x, f |-> f]
        ELSE [z |-> FALSE, x |-> x + s1 \div LimbBase,
              f |-> <<s1 % LimbBase, s2 % LimbBase, s3 % LimbBase, s4 % LimbBase>>]

\* a / b for integers a >= 0, b > 0, correctly rounded
FDiv(a, b) ==
    IF a = 0 THEN FZero
    ELSE LET s  == ShiftUp(a, b)
             a1 == a * 2 ^ s
             t  == ShiftUp(b, a1 + 1) - 1
             b1 == b * 2 ^ t
             r0 == a1 - b1
             r1 == (LimbBase * r0) % b1
             r2 == (LimbBase * r1) % b1
             r3 == (LimbBase * r2) % b1
             r4 == (LimbBase * r3) % b1
             f  == << (LimbBase * r0) \div b1, (LimbBase * r1) \div b1,
                      (LimbBase * r2) \div b1, (LimbBase * r3) \div b1 >>
             cmp == IF 2 * r4 > b1 THEN 1 ELSE IF 2 * r4 = b1 THEN 0 ELSE -1
         IN  RoundEven(t - s, f, cmp)

\* v * k for a float v >= 0 and an integer 0 <= k < 2^13, correctly rounded
FMulInt(v, k) ==
    IF v.z \/ k = 0 THEN FZero
    ELSE LET p4  == v.f[4] * k
             p3  == v.f[3] * k + p4 \div LimbBase
             p2  == v.f[2] * k + p3 \div LimbBase
             p1  == v.f[1] * k + p2 \div LimbBase
             top == k + p1 \div LimbBase
             l   == << p1 % LimbBase, p2 % LimbBase, p3 % LimbBase, p4 % LimbBase >>
             extra == ShiftUp(1, top + 1) - 1
             lo  == 2 ^ extra
             hi  == 2 ^ (LimbBits - extra)
             f   == << (top % lo) * hi + l[1] \div lo, (l[1] % lo) * hi + l[2] \div lo,
                       (l[2] % lo) * hi + l[3] \div lo, (l[3] % lo) * hi + l[4] \div lo >>
             d   == l[4] % lo
             cmp == IF 2 * d > lo THEN 1 ELSE IF 2 * d = lo THEN 0 ELSE -1
         IN  RoundEven(v.x + extra, f, cmp)

\* int(v): truncation of a float 0 <= v < 2^17
FTrunc(v) ==
    IF v.z \/ v.x < 0 THEN 0
    ELSE LET sh == FracBits - v.x
             Term(i) == LET w == FracBits - LimbBits * i
                        IN  IF w >= sh THEN v.f[i] * 2 ^ (w - sh)
                            ELSE IF sh - w < LimbBits THEN v.f[i] \div 2 ^ (sh - w)
                            ELSE 0
         IN  2 ^ v.x + Term(1) + Term(2) + Term(3) + Term(4)

\* v < n for a float v >= 0 and an integer n (Python compares them exactly)
FLessInt(v, n) == FTrunc(v) < n

-----------------------------------------------------------------------------
(* fasta/randseq.py *)

Counts == {-1} \cup (0..MaxCount)
Lens == {-1} \cup (0..MaxLen) \cup {LongLen}
GcPercents == {-5, 0, 33, 34, 50, 58, 100, 101, 150}

IsGC(c) == c \in {"G", "C"}

GcCount(s) == Cardinality({i \in 1..Len(s) : IsGC(s[i])})

InvalidLen_Mut(l) == l < 0

InvalidLen(l) == l <= 0

InvalidCount(n) == n <= 0

InvalidGc(gc) == gc > 100 \/ gc < 0

\* validate_args: the message it raises, or "" when the arguments pass
validate_args(args) ==
    IF InvalidLen(args.l) THEN "Positive sequence length (-l) required [error]."
    ELSE IF InvalidCount(args.n) THEN "Positive number of sequence (-n) required [error]."
    ELSE IF InvalidGc(args.gc) THEN "GC percentage (-gc) must be between 0 .. 100 [error]."
    ELSE ""

\* list('AT' * seq_len)[:seq_len]
Scaffold(l) == [i \in 1..l |-> IF i % 2 = 1 THEN "A" ELSE "T"]

\* int(len(seq_list) * gc_perc) with gc_perc = gc / 100.0
NumGcReqd(l, gc) == FTrunc(FMulInt(FDiv(gc, 100), l))

\* outcomes of random.shuffle on a list of k items, as index permutations:
\* every permutation up to MaxLen items, two of them for a longer list
Shuffles(k) ==
    IF k <= MaxLen
    THEN {p \in [1..k -> 1..k] : \A i, j \in 1..k : i # j => p[i] # p[j]}
    ELSE {[i \in 1..k |-> i], [i \in 1..k |-> k + 1 - i]}

\* outcomes of k calls of random.choice(['G', 'C']): every outcome up to
\* MaxLen calls, the two constant ones for more
Choices(k) ==
    IF k <= MaxLen THEN [1..k -> {"G", "C"}]
    ELSE {[i \in 1..k |-> "G"], [i \in 1..k |-> "C"]}

\* one iteration of the loop of adhoc_generator
BuildSeq(l, gc, perm, pick) ==
    LET num_gc_reqd == NumGcReqd(l, gc)
        gc_positions == SubSeq(perm, 1, num_gc_reqd)
    IN  [i \in 1..l |->
           IF \E j \in 1..num_gc_reqd : gc_positions[j] = i
           THEN pick[CHOOSE j \in 1..num_gc_reqd : gc_positions[j] = i]
           ELSE Scaffold(l)[i]]

Header_Mut(i) == ">sequence_" \o ToString(i)

\* '>sequence_' + str(i + 1), i the 0-based index of enumerate
Header(i) == ">sequence_" \o ToString(i + 1)

GenIdle ==
    /\ gpc = "idle" /\ gargs = [n |-> 0, l |-> 0, gc |-> 0]
    /\ seqs = <<>> /\ gout = <<>> /\ gmsgs = <<>>

ScanIdle ==
    /\ spc = "idle" /\ sargs = [w |-> 0, o |-> 0, n |-> 0]
    /\ remaining = 0 /\ parsed = FALSE /\ ei = 0 /\ seq = <<>>
    /\ start = 0 /\ end = 0 /\ cand = <<>> /\ npercArgs = {}
    /\ out = <<>> /\ smsgs = <<>>

GenInit ==
    /\ gpc = "start"
    /\ gargs \in [n : Counts, l : Lens, gc : GcPercents]
    /\ seqs = <<>> /\ gout = <<>> /\ gmsgs = <<>>
    /\ ScanIdle

\* __main__: validate_args, and the except branch that prints the error
Validate ==
    /\ gpc = "start"
    /\ IF validate_args(gargs) # ""
       THEN /\ gmsgs' = Append(gmsgs, validate_args(gargs))
            /\ gpc' = "error"
       ELSE /\ gpc' = IF Len(seqs) < gargs.n THEN "generate" ELSE "output"
            /\ gmsgs' = gmsgs
    /\ UNCHANGED <<gargs, seqs, gout, svars>>

\* adhoc_generator: one iteration of `for _ in range(num_seqs)`
Generate ==
    /\ gpc = "generate"
    /\ Len(seqs) < gargs.n
    /\ \E perm \in Shuffles(gargs.l) :
         \E pick \in Choices(NumGcReqd(gargs.l, gargs.gc)) :
            seqs' = Append(seqs, BuildSeq(gargs.l, gargs.gc, perm, pick))
    /\ gpc' = IF Len(seqs') < gargs.n THEN "generate" ELSE "output"
    /\ UNCHANGED <<gargs, gout, gmsgs, svars>>

\* output: one iteration of `for i, seq in enumerate(seqs)`
Output ==
    /\ gpc = "output"
    /\ Len(gout) < Len(seqs)
    /\ LET i == Len(gout)
           s == seqs[i + 1]
       IN  \E perm \in Shuffles(Len(s)) :
              gout' = Append(gout, [header |-> Header(i),
                                    body |-> [k \in 1..Len(s) |-> s[perm[k]]]])
    /\ gpc' = IF Len(gout') < Len(seqs) THEN "output" ELSE "done"
    /\ UNCHANGED <<gargs, seqs, gmsgs, svars>>

GenNext == Validate \/ Generate \/ Output

GenSpec == GenInit /\ [][GenNext]_vars

-----------------------------------------------------------------------------
(* fasta/slidingwindow.py *)

Widths == {-1} \cup (0..MaxWidth) \cup {ExampleWidth, WideWidth}
Overlaps == {-2, -1} \cup (0..MaxOverlap)
Thresholds == {0, 50, 58, 100}

Alphabet == {"A", "N", "n"}

\* record sequences the input file may hold: every sequence over Alphabet up
\* to MaxSeqLen, N-free sequences up to MaxCleanLen and of ExampleLen, and one
\* long record that starts with MaskedNs N's
SmallSeqs == UNION {[1..k -> Alphabet] : k \in 0..MaxSeqLen}
CleanSeqs == {[i \in 1..k |-> "A"] : k \in (1..MaxCleanLen) \cup {ExampleLen}}
MaskedSeq == [i \in 1..MaskedLen |-> IF i <= MaskedNs THEN "N" ELSE "A"]
SeqPool == SmallSeqs \cup CleanSeqs \cup {MaskedSeq}

\* a Python slice bound i on a sequence of length L
PyBound(i, L) ==
    IF i < 0 THEN (IF i + L < 0 THEN 0 ELSE i + L)
    ELSE IF i > L THEN L ELSE i

\* seq[a: b]
Slice(s, a, b) ==
    LET lo == PyBound(a, Len(s))
        hi == PyBound(b, Len(s))
    IN  IF lo >= hi THEN <<>> ELSE SubSeq(s, lo + 1, hi)

\* str.upper on one character of the alphabet
Upper(c) == IF c = "n" THEN "N" ELSE c

\* str(seq).upper().count('N')
CountN(s) == Cardinality({i \in 1..Len(s) : Upper(s[i]) = "N"})

\* get_n_perc on a non-empty sequence: n_count / len(seq) * 100
get_n_perc(s) == FMulInt(FDiv(CountN(s), Len(s)), 100)

\* get_n_perc(win) < n
BelowThreshold(s, n) == FLessInt(get_n_perc(s), n)

InvalidWindow_Mut(w, o) == w < o

\* __main__: args['w'] <= args['o']
InvalidWindow(w, o) == w <= o

NextStart_Mut(e, o) == e

\* start = end - o
NextStart(e, o) == e - o

NextEnd_Mut(s, w) == s + w - 1

\* end = start + w
NextEnd(s, w) == s + w

\* the FASTA record printed for a window: header fields and body
Window(d, st, w, o, body) == [d |-> d, start |-> st, w |-> w, o |-> o, body |-> body]

ScanInit ==
    /\ spc = "start"
    /\ sargs \in [w : Widths, o : Overlaps, n : Thresholds]
    /\ remaining \in 0..MaxEntries
    /\ parsed = FALSE /\ ei = 0 /\ seq = <<>>
    /\ start = 0 /\ end = 0 /\ cand = <<>> /\ npercArgs = {}
    /\ out = <<>> /\ smsgs = <<>>
    /\ GenIdle

\* __main__: the width/overlap check, then the call of run_slidingwindow up
\* to parse_fasta; the except branch prints the error
ScanMain ==
    /\ spc = "start"
    /\ IF InvalidWindow(sargs.w, sargs.o)
       THEN /\ smsgs' = Append(smsgs, "Window size must be > overlap size.")
            /\ spc' = "error"
            /\ parsed' = parsed
       ELSE /\ parsed' = TRUE
            /\ spc' = "entry"
            /\ smsgs' = smsgs
    /\ UNCHANGED <<sargs, remaining, ei, seq, start, end, cand, npercArgs, out,
                   gvars>>

\* run_slidingwindow: `for entry in entries` yields a record; the first chunk
\* is cut and tested.  get_n_perc divides by len(seq): an empty chunk raises
\* ZeroDivisionError, which __main__ does not catch.
NextEntry ==
    /\ spc = "entry"
    /\ remaining > 0
    /\ \E s \in SeqPool :
         LET chunk1 == Slice(s, 0, sargs.w)
         IN  /\ seq' = s
             /\ start' = 0
             /\ end' = sargs.w
             /\ cand' = <<[start |-> 0, end |-> sargs.w]>>
             /\ npercArgs' = {Len(chunk1)}
             /\ IF Len(chunk1) = 0
                THEN /\ spc' = "crash"
                     /\ out' = <<>>
                ELSE /\ spc' = "loop"
                     /\ out' = IF BelowThreshold(chunk1, sargs.n)
                               THEN <<Window(ei + 1, 0, sargs.w, sargs.o, chunk1)>>
                               ELSE <<>>
    /\ remaining' = remaining - 1
    /\ ei' = ei + 1
    /\ UNCHANGED <<sargs, parsed, smsgs, gvars>>

\* run_slidingwindow: `for entry in entries` is exhausted
EndOfFile ==
    /\ spc = "entry"
    /\ remaining = 0
    /\ spc' = "done"
    /\ UNCHANGED <<sargs, remaining, parsed, ei, seq, start, end, cand, npercArgs,
                   out, smsgs, gvars>>

\* run_slidingwindow: one iteration of `while True`
WindowStep ==
    /\ spc = "loop"
    /\ LET s1  == NextStart(end, sargs.o)
           e1  == NextEnd(s1, sargs.w)
           win == Slice(seq, s1, e1)
       IN  /\ start' = s1
           /\ end' = e1
           /\ cand' = Append(cand, [start |-> s1, end |-> e1])
           /\ IF s1 > Len(seq)
              THEN /\ spc' = "entry"
                   /\ UNCHANGED <<npercArgs, out>>
              ELSE IF s1 # Len(seq)
              THEN /\ npercArgs' = npercArgs \cup {Len(win)}
                   /\ IF Len(win) = 0
                      THEN /\ spc' = "crash"
                           /\ out' = out
                      ELSE /\ spc' = "loop"
                           /\ out' = IF BelowThreshold(win, sargs.n)
                                     THEN Append(out, Window(ei, s1, sargs.w, sargs.o, win))
                                     ELSE out
              ELSE /\ spc' = "loop"
                   /\ UNCHANGED <<npercArgs, out>>
    /\ UNCHANGED <<sargs, remaining, parsed, ei, seq, smsgs, gvars>>

ScanNext == ScanMain \/ NextEntry \/ EndOfFile \/ WindowStep

ScanSpec == ScanInit /\ [][ScanNext]_vars

-----------------------------------------------------------------------------
(* Properties of fasta/randseq.py *)

Bases == {"A", "C", "G", "T"}

ValidGenArgs == gargs.n >= 1 /\ gargs.l >= 1 /\ gargs.gc >= 0 /\ gargs.gc <= 100

WellFormed(s) ==
    /\ Len(s) = gargs.l
    /\ \A i \in 1..Len(s) : s[i] \in Bases
    /\ GcCount(s) = (gargs.l * gargs.gc) \div 100

\* C1: for valid arguments every sequence adhoc_generator builds and every
\* sequence output prints has exactly `length` characters from {A,C,G,T} and
\* exactly floor(length * gc_percent / 100) G or C characters.
C1_ExactGcCount ==
    ValidGenArgs =>
        /\ \A i \in 1..Len(seqs) : WellFormed(seqs[i])
        /\ \A i \in 1..Len(gout) : WellFormed(gout[i].body)

InvalidGenArgs == gargs.l <= 0 \/ gargs.n <= 0 \/ gargs.gc < 0 \/ gargs.gc > 100

\* C2: with an invalid length, count or GC percentage the run ends in the
\* error outcome with one message printed, nothing is generated and no FASTA
\* record is printed; and nothing is generated or printed before validation.
C2_InvalidArgsNoOutput ==
    /\ InvalidGenArgs =>
          /\ gpc \in {"start", "error"}
          /\ gpc = "error" => Len(gmsgs) = 1
          /\ seqs = <<>> /\ gout = <<>>
    /\ gpc = "start" => seqs = <<>> /\ gout = <<>> /\ gmsgs = <<>>

\* C2 witness: a GC percentage above 100 was rejected.
C2_Witness ==
    /\ gpc = "error" /\ Len(gmsgs) = 1
    /\ gargs.gc > 100 /\ gargs.l > 0 /\ gargs.n > 0

\* C3: for valid arguments the i-th record printed carries the header
\* >sequence_<i> (1-based), and the finished run has printed exactly `count`
\* records.
C3_HeadersInOrder ==
    ValidGenArgs =>
        /\ Len(gout) <= gargs.n
        /\ \A i \in 1..Len(gout) : gout[i].header = ">sequence_" \o ToString(i)
        /\ gpc = "done" => Len(gout) = gargs.n
        /\ gmsgs = <<>>

\* C3 witness: a finished run that printed MaxCount records.
C3_Witness ==
    /\ gpc = "done" /\ gargs.n = MaxCount /\ Len(gout) = MaxCount
    /\ gout[MaxCount].header = ">sequence_" \o ToString(MaxCount)

-----------------------------------------------------------------------------
(* Properties of fasta/slidingwindow.py *)

Step == sargs.w - sargs.o

\* the loop of the current record has ended
RecordDone == spc \in {"entry", "done"} /\ ei >= 1

HasN(s) == \E i \in 1..Len(s) : s[i] \in {"N", "n"}

Starts == [i \in 1..Len(out) |-> out[i].start]

\* C4: for a record of length L >= 1 without N, a threshold > 0 and
\* width > overlap >= 0, the windows printed for the record start, in order,
\* at 0, (width-overlap), 2*(width-overlap), ...: every multiple strictly
\* below L exactly once and none at or beyond L.
C4_StartOffsets ==
    (ei >= 1 /\ Len(seq) >= 1 /\ ~HasN(seq) /\ sargs.n > 0
       /\ sargs.w > sargs.o /\ sargs.o >= 0) =>
        /\ \A i \in 1..Len(out) : out[i].start = (i - 1) * Step /\ out[i].start < Len(seq)
        /\ RecordDone => Len(out) = (Len(seq) - 1) \div Step + 1

\* C4 witness: width 10, overlap 3, a record of 25 bases: offsets 0, 7, 14, 21.
C4_Witness ==
    /\ RecordDone /\ Len(seq) = ExampleLen /\ ~HasN(seq)
    /\ sargs.w = ExampleWidth /\ sargs.o = MaxOverlap /\ sargs.n > 0
    /\ Starts = <<0, 7, 14, 21>>

Emitted(st) == \E i \in 1..Len(out) : out[i].start = st

\* C5: a candidate window (start < L) is printed if and only if its
\* N-percentage 100 * (number of N or n in the clipped window) / (length of
\* the clipped window) is strictly below the threshold.
C5_StrictThreshold ==
    \A i \in 1..Len(cand) :
        LET clip == Slice(seq, cand[i].start, cand[i].end)
        IN  (cand[i].start < Len(seq) /\ Len(clip) > 0) =>
                (Emitted(cand[i].start) <=> 100 * CountN(clip) < sargs.n * Len(clip))

\* C6: with width <= overlap the run ends in the error outcome with one
\* message, before the input is parsed or any record is read; no window is
\* printed.
C6_WidthNotAboveOverlap ==
    sargs.w <= sargs.o =>
        /\ spc \in {"idle", "start", "error"}
        /\ spc = "error" => Len(smsgs) = 1
        /\ ~parsed /\ ei = 0 /\ out = <<>> /\ cand = <<>> /\ npercArgs = {}

\* C6 witness: width equal to overlap was rejected.
C6_Witness ==
    /\ spc = "error" /\ sargs.w = sargs.o /\ sargs.w > 0 /\ remaining > 0
    /\ Len(smsgs) = 1

\* C7: for a record of length L >= 1 and any (width, overlap) the validation
\* accepts, every index of [0, L) lies in a window [start, start + width) the
\* loop computed for the record.
C7_Coverage ==
    (RecordDone /\ Len(seq) >= 1 /\ ~InvalidWindow(sargs.w, sargs.o)) =>
        \A b \in 0..(Len(seq) - 1) :
            \E i \in 1..Len(cand) :
                cand[i].start <= b /\ b < cand[i].start + sargs.w

C9_NoEmptyWindow ==
    ~InvalidWindow(sargs.w, sargs.o) => 0 \notin npercArgs

\* C10: a validated run over a finite input processes every record and
\* finishes: at any time it is still running (at start, at the head of the
\* record loop or inside the window loop, where a next step exists), or it
\* has ended in the error outcome, or it is done with every record read.
C10_RunCompletes ==
    \/ spc \in {"idle", "start", "entry", "loop", "error"}
    \/ (spc = "done" /\ remaining = 0)

====
